---- MODULE Spec2Model ----
(***************************************************************************)
(* Model of compact_tables.py: the Compactor tree processor (table         *)
(* attributes, then row joining), the TableBlockRetreiver block processor  *)
(* that records the source block of each table, and the extension's        *)
(* configuration.                                                          *)
(*                                                                         *)
(* A Python str is a sequence of one-character strings; an element tag is  *)
(* an atom.  An Element is a record; a <tr> is the sequence of the texts   *)
(* of its <td> cells, and is identified by its position in its <tbody>.    *)
(***************************************************************************)
EXTENDS Integers, Sequences, FiniteSets, TLC

\* ------------------------------------------------------------ bounds
MaxRows == 3
MaxTables == 2
MaxPasses == 2
MaxPairs == 3
MaxRowsPasses == 2

\* ------------------------------------------------------------ str
Max(S) == CHOOSE x \in S : \A y \in S : y <= x
Min(S) == CHOOSE x \in S : \A y \in S : x <= y

\* The characters str.strip() removes, among those the inputs use.
Whitespace == {" ", "\t"}

RECURSIVE lstrip(_)
lstrip(s) == IF s # <<>> /\ Head(s) \in Whitespace THEN lstrip(Tail(s)) ELSE s

RECURSIVE rstrip(_)
rstrip(s) ==
    IF s # <<>> /\ s[Len(s)] \in Whitespace
    THEN rstrip(SubSeq(s, 1, Len(s) - 1))
    ELSE s

strip(s) == rstrip(lstrip(s))

endswith(s, suffix) ==
    /\ Len(s) >= Len(suffix)
    /\ SubSeq(s, Len(s) - Len(suffix) + 1, Len(s)) = suffix

startswith(s, prefix) ==
    /\ Len(s) >= Len(prefix)
    /\ SubSeq(s, 1, Len(prefix)) = prefix

\* s.split(d) for a one-character delimiter d.
RECURSIVE split(_, _)
split(s, d) ==
    LET at == {i \in 1..Len(s) : s[i] = d} IN
    IF at = {} THEN <<s>>
    ELSE <<SubSeq(s, 1, Min(at) - 1)>> \o split(SubSeq(s, Min(at) + 1, Len(s)), d)

\* d.join(parts)
RECURSIVE join(_, _)
join(d, parts) ==
    IF parts = <<>> THEN <<>>
    ELSE IF Len(parts) = 1 THEN parts[1]
    ELSE parts[1] \o d \o join(d, Tail(parts))

\* ------------------------------------------------------------ literals
NL == "\n"
BR == <<"<", "b", "r", "/", ">">>
SPACE == <<" ">>
MARKER == <<"|", "^">>
CLASS == <<"c", "l", "a", "s", "s">>
ID == <<"i", "d">>
DOT == <<".">>
CAPTION_LIT == <<" ", "c", "a", "p", "t", "i", "o", "n", ":", " ">>

\* ------------------------------------------------------------ TABLE_ATTR_RE
\* TABLE_ATTR_RE.match(s) for r"\{(.+)\}(?: caption: (.+))?": anchored at the
\* start only; the greedy (.+) runs to the last "}" that leaves it one
\* character; the optional group either matches " caption: " and at least
\* one more character, or is skipped.  s holds no line break (it is one
\* element of block.split("\n")).
NoMatch == [matched |-> FALSE, attrs |-> <<>>, hasCaption |-> FALSE, caption |-> <<>>]

TABLE_ATTR_RE_match(s) ==
    LET closers == {j \in 3..Len(s) : s[j] = "}"} IN
    IF s = <<>> \/ Head(s) # "{" \/ closers = {} THEN NoMatch
    ELSE LET j == Max(closers)
             rest == SubSeq(s, j + 1, Len(s))
             cap == startswith(rest, CAPTION_LIT) /\ Len(rest) > Len(CAPTION_LIT)
         IN [matched |-> TRUE,
             attrs |-> SubSeq(s, 2, j - 1),
             hasCaption |-> cap,
             caption |-> IF cap THEN SubSeq(rest, Len(CAPTION_LIT) + 1, Len(rest))
                         ELSE <<>>]

\* ------------------------------------------------------------ attr_list
\* attr_list.get_attrs(s): the scanner's tokens, for text without quotes.
\* A run of characters other than " " and "=" followed by "=" and another
\* such run is a (key, value) pair; a run alone is a word: ".x" is
\* (".", "x"), "#x" is ("id", "x"), any other word w is (w, w); a space is
\* skipped; the scan stops at a character no rule accepts.
WordLen(s) ==
    LET stops == {i \in 1..Len(s) : s[i] \in {" ", "="}} IN
    IF stops = {} THEN Len(s) ELSE Min(stops) - 1

handle_word(t) ==
    IF Head(t) = "." THEN <<DOT, Tail(t)>>
    ELSE IF Head(t) = "#" THEN <<ID, Tail(t)>>
    ELSE <<t, t>>

RECURSIVE get_attrs(_)
get_attrs(s) ==
    IF s = <<>> THEN <<>>
    ELSE IF Head(s) = " " THEN get_attrs(Tail(s))
    ELSE LET n == WordLen(s)
             after == SubSeq(s, n + 1, Len(s))
             m == IF after # <<>> /\ Head(after) = "=" THEN WordLen(Tail(after)) ELSE 0
         IN IF n = 0 THEN <<>>
            ELSE IF m > 0
            THEN <<    <<SubSeq(s, 1, n), SubSeq(after, 2, m + 1)>>    >>
                 \o get_attrs(SubSeq(after, m + 2, Len(after)))
            ELSE <<handle_word(SubSeq(s, 1, n))>> \o get_attrs(after)

\* AttrListTreeprocessor.NAME_RE.sub('_', name): every maximal run of
\* characters outside the name grammar becomes one "_".
NameChars ==
    {"a", "b", "c", "d", "e", "f", "g", "h", "i", "j", "k", "l", "m",
     "n", "o", "p", "q", "r", "s", "t", "u", "v", "w", "x", "y", "z",
     "A", "B", "C", "D", "E", "F", "G", "H", "I", "J", "K", "L", "M",
     "N", "O", "P", "Q", "R", "S", "T", "U", "V", "W", "X", "Y", "Z",
     "0", "1", "2", "3", "4", "5", "6", "7", "8", "9",
     "_", ":", "-", "."}

RECURSIVE sanitize_name(_)
sanitize_name(name) ==
    IF name = <<>> THEN <<>>
    ELSE IF Head(name) \in NameChars
    THEN <<Head(name)>> \o sanitize_name(Tail(name))
    ELSE LET good == {i \in 1..Len(name) : name[i] \in NameChars} IN
         IF good = {} THEN <<"_">>
         ELSE <<"_">> \o sanitize_name(SubSeq(name, Min(good), Len(name)))

\* ------------------------------------------------------------ elements
\* A child of <table>: <caption> (text), <thead> or <tbody> (rows).
Child(tag, text, rows) == [tag |-> tag, text |-> text, rows |-> rows]

\* table.find(tag): the position of the first child with that tag; 0 is None.
find(table, tag) ==
    LET at == {i \in 1..Len(table.children) : table.children[i].tag = tag} IN
    IF at = {} THEN 0 ELSE Min(at)

\* The rows of the table's <tbody> (len(tbody), iteration over tbody).
tbody_rows(table) == table.children[find(table, "tbody")].rows

set_tbody_rows(table, rows) ==
    [table EXCEPT !.children[find(table, "tbody")].rows = rows]

\* elem.get(name): the attribute's value; <<>> stands for None as well, the
\* callers only test the result for truth.
attr_get(elem, name) ==
    IF \E p \in elem.attrib : p[1] = name
    THEN (CHOOSE p \in elem.attrib : p[1] = name)[2]
    ELSE <<>>

\* elem.set(name, value)
attr_set(elem, name, value) ==
    [elem EXCEPT !.attrib = {p \in @ : p[1] # name} \cup {<<name, value>>}]

\* table.insert(0, child)
insert_first(table, child) == [table EXCEPT !.children = <<child>> \o @]

\* ------------------------------------------------------------ Compactor
\* Compactor.__init__: the separator of joined cell text.
make_sep(ins_brk) == IF ins_brk THEN BR ELSE SPACE

\* Extension.getConfig(key, default): the configured value when the key is
\* one of the extension's options, the default only when it is not.
getConfig(cfg, key, default) == IF key \in DOMAIN cfg THEN cfg[key] ELSE default

\* Extension.__init__(**kwargs): every keyword sets its option.
RECURSIVE setConfigs(_, _)
setConfigs(cfg, kw) ==
    IF kw = <<>> THEN cfg
    ELSE setConfigs([cfg EXCEPT ![kw[1][1]] = kw[1][2]], Tail(kw))

\* One turn of assign_attrs' loop.
assign_pair_overwrite(elem, k, v) ==
    IF k = DOT THEN attr_set(elem, CLASS, v) ELSE attr_set(elem, sanitize_name(k), v)
assign_pair(elem, k, v) ==
    IF k = DOT
    THEN LET cls == attr_get(elem, CLASS) IN
         IF cls # <<>> THEN attr_set(elem, CLASS, cls \o SPACE \o v)
         ELSE attr_set(elem, CLASS, v)
    ELSE attr_set(elem, sanitize_name(k), v)

RECURSIVE assign_pairs(_, _)
assign_pairs(elem, kvs) ==
    IF kvs = <<>> THEN elem
    ELSE assign_pairs(assign_pair(elem, kvs[1][1], kvs[1][2]), Tail(kvs))

assign_attrs(elem, attrs) == assign_pairs(elem, get_attrs(attrs))

\* orig_row.strip().endswith("|^")
is_continuation_nostrip(orig_row) == endswith(orig_row, MARKER)
is_continuation(orig_row) == endswith(strip(orig_row), MARKER)

\* The body of the loop over zip(prev_tr, tr) for one pair of cells: the new
\* text of prev_td.  "not td.text" is the empty text (the table processor
\* always sets a str).
merge_td_reversed(prev_text, cur_text, sp) ==
    IF cur_text = <<>> THEN prev_text
    ELSE IF prev_text = <<>> THEN cur_text
    ELSE cur_text \o sp \o prev_text
merge_td(prev_text, cur_text, sp) ==
    IF cur_text = <<>> THEN prev_text
    ELSE IF prev_text = <<>> THEN cur_text
    ELSE prev_text \o sp \o cur_text

\* for prev_td, cur_td in zip(prev_tr, tr): up to the shorter row.
merge_tr(prev_row, cur_row, sp) ==
    [c \in 1..Len(prev_row) |->
        IF c <= Len(cur_row) THEN merge_td(prev_row[c], cur_row[c], sp)
        ELSE prev_row[c]]

\* for tr in row_remove: tbody.remove(tr), rows named by their position.
RECURSIVE keep_rows(_, _, _)
keep_rows(trs, gone, i) ==
    IF i > Len(trs) THEN <<>>
    ELSE (IF i \in gone THEN <<>> ELSE <<trs[i]>>) \o keep_rows(trs, gone, i + 1)

remove_rows(trs, gone) == keep_rows(trs, gone, 1)

\* rows.pop()
rows_pop_kept(lines) == lines
rows_pop(lines) == SubSeq(lines, 1, Len(lines) - 1)

\* tbody.remove(tbody[-1]), for a tbody that has a row
remove_last(trs) == SubSeq(trs, 1, Len(trs) - 1)

\* ------------------------------------------------------------ state
VARIABLES
    ext_kwargs,    \* the keywords CompactTableExtension was created with
    config,        \* CompactTableExtension.config: option -> value
    sep,           \* Compactor.sep
    table_blocks,  \* Compactor.table_blocks: one list of lines per add_block
    root,          \* the document tree: its <table> elements in document order
    doc_blocks,    \* the lines of each table of the document being rendered
    pass,          \* how many documents have been given to the Markdown instance
    pc,            \* where the render pass is
    err,           \* the exception that ended the pass, "" when none
    tbl_index,     \* enumerate()'s index in run / add_table_attributes, from 1
    rows,          \* run's local rows = table_blocks[tbl_index][2:]
    row_index,     \* position of the zip(rows, tbody) iteration, from 1
    prev_tr,       \* run's prev_tr: a position in tbody, 0 is None
    row_remove,    \* run's row_remove: positions in tbody
    root0,         \* the tree when run was entered
    blocks0,       \* table_blocks when run was entered
    root1,         \* the tree when add_table_attributes returned
    attrs_in       \* the attribute words handed to assign_attrs on its own

vars == <<ext_kwargs, config, sep, table_blocks, root, doc_blocks, pass, pc, err,
          tbl_index, rows, row_index, prev_tr, row_remove, root0, blocks0, root1,
          attrs_in>>

ext_vars == <<ext_kwargs, config, sep>>
loop_vars == <<tbl_index, rows, row_index, prev_tr, row_remove>>
snap_vars == <<root0, blocks0, root1>>

\* ------------------------------------------------------------ inputs
HEADER == <<"h", "|", "k">>
RULE == <<"-", "|", "-">>

L_plain == <<"|", "x", "|">>
L_mark == <<"|", "x", "|", "^">>
L_mark_sp == <<"|", "x", "|", "^", " ">>
L_caret == <<"|", "x", "^">>
L_dir == <<"{", ".", "c", "}">>
L_dir_cap == L_dir \o CAPTION_LIT \o <<"P", " ">>
L_empty_cap == <<"{", "}">> \o CAPTION_LIT \o <<"P">>
L_dir_tail == L_dir \o <<"|", "x">>
L_sp_dir == <<" ">> \o L_dir
L_cell_dir == <<"|">> \o L_dir \o <<"|">>
L_attrs == <<"{", "k", "=", "v", " ", ".", "c", " ", ".", "d", "}">>

\* Source lines of body rows.  Only the last line of a block is matched
\* against TABLE_ATTR_RE, so the directive variants stand there.
BodyLines == {L_plain, L_mark, L_mark_sp, L_dir}
LastLines == BodyLines \cup
    {L_caret, L_dir_cap, L_empty_cap, L_dir_tail, L_sp_dir, L_cell_dir, L_attrs}
SmallLines == {L_plain, L_mark, L_dir}

\* Which cells of a row hold text.
Shapes == {<<TRUE, TRUE>>, <<FALSE, TRUE>>}
SmallShapes == {<<TRUE, TRUE>>}
Columns == <<"a", "b">>

\* The text of cell c of body row i: its row number and column letter.
CellText(i, c) == <<ToString(i), Columns[c]>>

RowOf(i, shape) == [c \in 1..Len(shape) |-> IF shape[c] THEN CellText(i, c) ELSE <<>>]

LineSeqs(n, body, last) ==
    IF n = 0 THEN {<<>>}
    ELSE {Append(p, l) : p \in [1..(n - 1) -> body], l \in last}

RowSeqs(m, shapes) == {[i \in 1..m |-> RowOf(i, sh[i])] : sh \in [1..m -> shapes]}

\* The element the table processor builds: <thead>, and <tbody> with one
\* <tr> per body row.
NewTable(trs, has_tbody) ==
    [attrib |-> {},
     children |-> <<Child("thead", <<>>, <<Columns>>)>>
                  \o (IF has_tbody THEN <<Child("tbody", <<>>, trs)>> ELSE <<>>)]

KwChoices == {<<>>, << <<"auto_insert_break", TRUE>> >>, << <<"auto_insert_break", FALSE>> >>}

\* ------------------------------------------------------------ actions
Unused ==
    /\ ext_kwargs = <<>>
    /\ config = [auto_insert_break |-> FALSE]
    /\ sep = <<>>
    /\ table_blocks = <<>>
    /\ doc_blocks = <<>>
    /\ pass = 0
    /\ err = ""
    /\ tbl_index = 0
    /\ rows = <<>>
    /\ row_index = 0
    /\ prev_tr = 0
    /\ row_remove = {}
    /\ blocks0 = <<>>
    /\ root1 = <<>>

Fresh ==
    /\ pc = "new"
    /\ attrs_in = <<>>
    /\ root = <<>>
    /\ root0 = <<>>
    /\ Unused

Init == Fresh

\* CompactTableExtension.__init__ and extendMarkdown: the option's value is
\* read, and the Compactor is created and registered when the table block
\* processor is registered.
ExtInit(kws) ==
    /\ pc = "new"
    /\ \E kw \in kws, has_table \in BOOLEAN :
        LET cfg == setConfigs([auto_insert_break |-> FALSE], kw)
            ins_brk == getConfig(cfg, "auto_insert_break", TRUE)
        IN /\ ext_kwargs' = kw
           /\ config' = cfg
           /\ IF has_table
              THEN sep' = make_sep(ins_brk) /\ pc' = "idle"
              ELSE sep' = sep /\ pc' = "unregistered"
    /\ UNCHANGED <<table_blocks, root, doc_blocks, pass, err, loop_vars, snap_vars,
                   attrs_in>>

\* Markdown.convert starts on a new document: a new tree.
Convert(max_passes) ==
    /\ pc \in {"idle", "done", "error"}
    /\ pass < max_passes
    /\ pass' = pass + 1
    /\ root' = <<>>
    /\ doc_blocks' = <<>>
    /\ err' = ""
    /\ pc' = "parse"
    /\ UNCHANGED <<ext_vars, table_blocks, loop_vars, snap_vars, attrs_in>>

\* TableBlockRetreiver.run on a table block: add_block(blocks[0]); the run
\* returns False, so the table processor then builds the <table>.  The block
\* is the header line, the rule line and n body lines; the processor builds
\* m body rows (m = n is its contract).
TableBlock(max_tables, max_rows, body, last, shapes, slack) ==
    /\ pc = "parse"
    /\ Len(root) < max_tables
    /\ \E n \in 0..max_rows, has_tbody \in BOOLEAN :
       \E m \in {k \in 0..max_rows : k - n \in -slack..slack /\ (has_tbody \/ k = 0)} :
       \E lines \in LineSeqs(n, body, last), trs \in RowSeqs(m, shapes) :
        LET block == join(<<NL>>, <<HEADER, RULE>> \o lines) IN
        /\ table_blocks' = Append(table_blocks, split(block, NL))
        /\ root' = Append(root, NewTable(trs, has_tbody))
        /\ doc_blocks' = Append(doc_blocks, <<HEADER, RULE>> \o lines)
    /\ UNCHANGED <<ext_vars, pass, pc, err, loop_vars, snap_vars, attrs_in>>

\* Compactor.run is entered: add_table_attributes(root) starts.
RunEnter ==
    /\ pc = "parse"
    /\ pc' = "attrs"
    /\ tbl_index' = 1
    /\ root0' = root
    /\ blocks0' = table_blocks
    /\ root1' = <<>>
    /\ UNCHANGED <<ext_vars, table_blocks, root, doc_blocks, pass, err, rows,
                   row_index, prev_tr, row_remove, attrs_in>>

\* The effect of a matched directive on the table, after the last row and
\* line were removed.
apply_directive(table, m) ==
    LET t1 == IF m.attrs # <<>> THEN assign_attrs(table, m.attrs) ELSE table IN
    IF m.hasCaption THEN insert_first(t1, Child("caption", strip(m.caption), <<>>))
    ELSE t1

\* One turn of add_table_attributes' loop.
AddTableAttributes ==
    /\ pc = "attrs"
    /\ tbl_index <= Len(root)
    /\ LET table == root[tbl_index] IN
       IF tbl_index > Len(table_blocks)
       THEN /\ pc' = "error" /\ err' = "IndexError"
            /\ UNCHANGED <<table_blocks, root, tbl_index>>
       ELSE LET lines == table_blocks[tbl_index]
                m == TABLE_ATTR_RE_match(lines[Len(lines)])
            IN
            IF Len(lines) < 4 \/ find(table, "tbody") = 0 \/ ~m.matched
            THEN /\ tbl_index' = tbl_index + 1
                 /\ UNCHANGED <<table_blocks, root, pc, err>>
            ELSE /\ table_blocks' = [table_blocks EXCEPT ![tbl_index] = rows_pop(lines)]
                 /\ IF tbody_rows(table) = <<>>
                    THEN /\ pc' = "error" /\ err' = "IndexError"
                         /\ UNCHANGED <<root, tbl_index>>
                    ELSE /\ root' = [root EXCEPT ![tbl_index] =
                                apply_directive(
                                    set_tbody_rows(table, remove_last(tbody_rows(table))), m)]
                         /\ tbl_index' = tbl_index + 1
                         /\ UNCHANGED <<pc, err>>
    /\ UNCHANGED <<ext_vars, doc_blocks, pass, rows, row_index, prev_tr, row_remove,
                   snap_vars, attrs_in>>

\* add_table_attributes returns; run's own loop over the tables starts.
AttributesDone ==
    /\ pc = "attrs"
    /\ tbl_index = Len(root) + 1
    /\ pc' = "join"
    /\ tbl_index' = 1
    /\ root1' = root
    /\ UNCHANGED <<ext_vars, table_blocks, root, doc_blocks, pass, err, rows,
                   row_index, prev_tr, row_remove, root0, blocks0, attrs_in>>

\* One turn of run's loop over the tables, up to the start of the scan.
JoinTable ==
    /\ pc = "join"
    /\ tbl_index <= Len(root)
    /\ LET table == root[tbl_index] IN
       IF tbl_index > Len(table_blocks)
       THEN /\ pc' = "error" /\ err' = "IndexError"
            /\ UNCHANGED loop_vars
       ELSE LET lines == table_blocks[tbl_index] IN
            IF Len(lines) < 4 \/ find(table, "tbody") = 0
            THEN /\ tbl_index' = tbl_index + 1
                 /\ UNCHANGED <<pc, err, rows, row_index, prev_tr, row_remove>>
            ELSE IF Len(lines) - 2 # Len(tbody_rows(table))
            THEN /\ pc' = "error" /\ err' = "AssertionError"
                 /\ rows' = SubSeq(lines, 3, Len(lines))
                 /\ UNCHANGED <<tbl_index, row_index, prev_tr, row_remove>>
            ELSE /\ pc' = "scan"
                 /\ rows' = SubSeq(lines, 3, Len(lines))
                 /\ row_index' = 1
                 /\ prev_tr' = 0
                 /\ row_remove' = {}
                 /\ UNCHANGED <<tbl_index, err>>
    /\ UNCHANGED <<ext_vars, table_blocks, root, doc_blocks, pass, snap_vars, attrs_in>>

\* One turn of the loop over zip(rows, tbody).
ScanRow ==
    /\ pc = "scan"
    /\ row_index <= Len(rows)
    /\ LET table == root[tbl_index]
           trs == tbody_rows(table)
       IN
       IF prev_tr = 0
       THEN /\ prev_tr' = row_index
            /\ UNCHANGED <<root, row_remove>>
       ELSE IF is_continuation(rows[row_index])
       THEN /\ root' = [root EXCEPT ![tbl_index] =
                    set_tbody_rows(table,
                        [trs EXCEPT ![prev_tr] = merge_tr(trs[prev_tr], trs[row_index], sep)])]
            /\ row_remove' = row_remove \cup {row_index}
            /\ UNCHANGED prev_tr
       ELSE /\ prev_tr' = row_index
            /\ UNCHANGED <<root, row_remove>>
    /\ row_index' = row_index + 1
    /\ UNCHANGED <<ext_vars, table_blocks, doc_blocks, pass, pc, err, tbl_index, rows,
                   snap_vars, attrs_in>>

\* The scan is over: the joined rows are removed, and the next table is due.
RemoveJoined ==
    /\ pc = "scan"
    /\ row_index = Len(rows) + 1
    /\ root' = [root EXCEPT ![tbl_index] =
            set_tbody_rows(@, remove_rows(tbody_rows(@), row_remove))]
    /\ pc' = "join"
    /\ tbl_index' = tbl_index + 1
    /\ UNCHANGED <<ext_vars, table_blocks, doc_blocks, pass, err, rows, row_index,
                   prev_tr, row_remove, snap_vars, attrs_in>>

\* run returns None.
RunReturn ==
    /\ pc = "join"
    /\ tbl_index = Len(root) + 1
    /\ pc' = "done"
    /\ UNCHANGED <<ext_vars, table_blocks, root, doc_blocks, pass, err, loop_vars,
                   snap_vars, attrs_in>>

\* ------------------------------------------------------------ one table, one pass
ExtInitAny == ExtInit(KwChoices)
ConvertOnce == Convert(1)
OneTable == TableBlock(1, MaxRows, BodyLines, LastLines, Shapes, 1)

Next ==
    \/ ExtInitAny
    \/ ConvertOnce
    \/ OneTable
    \/ RunEnter
    \/ AddTableAttributes
    \/ AttributesDone
    \/ JoinTable
    \/ ScanRow
    \/ RemoveJoined
    \/ RunReturn

Spec == Init /\ [][Next]_vars

\* ------------------------------------------------------------ several passes
\* One Markdown instance renders several documents of up to MaxTables tables.
ExtInitDefault == ExtInit({<<>>})
ConvertAgain == Convert(MaxPasses)
SmallTable == TableBlock(MaxTables, MaxRowsPasses, SmallLines, SmallLines, SmallShapes, 0)

NextPasses ==
    \/ ExtInitDefault
    \/ ConvertAgain
    \/ SmallTable
    \/ RunEnter
    \/ AddTableAttributes
    \/ AttributesDone
    \/ JoinTable
    \/ ScanRow
    \/ RemoveJoined
    \/ RunReturn

SpecPasses == Init /\ [][NextPasses]_vars

\* ------------------------------------------------------------ assign_attrs alone
\* assign_attrs on a table that may already have a class, for every list of
\* up to MaxPairs attribute words.
W_c == <<".", "c">>
W_d == <<".", "d">>
W_id == <<"i", "d", "=", "x">>
W_hash == <<"#", "i">>
W_class == <<"c", "l", "a", "s", "s", "=", "y">>
W_bang == <<"a", "!", "=", "x">>
W_what == <<"a", "?", "=", "y">>
Words == {W_c, W_d, W_id, W_hash, W_class, W_bang, W_what}
WordSeqs == UNION {[1..n -> Words] : n \in 0..MaxPairs}
OldClass == <<"o">>

InitAttrs ==
    /\ pc = "assign"
    /\ attrs_in \in WordSeqs
    /\ \E old \in {{}, {<<CLASS, OldClass>>}} :
        root = <<[NewTable(<<>>, TRUE) EXCEPT !.attrib = old]>>
    /\ root0 = root
    /\ Unused

AssignAttrs ==
    /\ pc = "assign"
    /\ root' = [root EXCEPT ![1] = assign_attrs(@, join(SPACE, attrs_in))]
    /\ pc' = "assigned"
    /\ UNCHANGED <<ext_vars, table_blocks, doc_blocks, pass, err, loop_vars,
                   snap_vars, attrs_in>>

NextAttrs == AssignAttrs

SpecAttrs == InitAttrs /\ [][NextAttrs]_vars

\* ------------------------------------------------------------ properties
\* What the properties below speak of, stated without the operators above.

Tables == 1..Len(root)
InRun == pc \in {"attrs", "join", "scan", "done", "error"}

\* run's own loop has started (add_table_attributes has returned).
InJoinPhase == pc \in {"join", "scan", "done"} \/ (pc = "error" /\ root1 # <<>>)

\* add_table_attributes is through with table t.
AttrsFinished(t) ==
    \/ pc = "attrs" /\ tbl_index > t
    \/ pc = "error" /\ root1 = <<>> /\ tbl_index > t
    \/ InJoinPhase

\* run's loop is scanning table t / is through with table t.
Scanning(t) == pc = "scan" /\ tbl_index = t
JoinFinished(t) == InJoinPhase /\ (pc = "done" \/ tbl_index > t)

HasBody(table) == find(table, "tbody") # 0
BodyOf(block) == SubSeq(block, 3, Len(block))

\* The line, without its surrounding whitespace, ends with "|^".
Marked(line) ==
    LET ink == {i \in 1..Len(line) : line[i] \notin {" ", "\t"}} IN
    /\ Cardinality(ink) >= 2
    /\ line[Max(ink)] = "^"
    /\ line[Max(ink) - 1] = "|"

\* Rows kept by the join: the first, and every later one that is not marked.
Retained(lines) == {i \in 1..Len(lines) : i = 1 \/ ~Marked(lines[i])}
NthRetained(lines, p) ==
    CHOOSE r \in Retained(lines) : Cardinality({q \in Retained(lines) : q <= r}) = p

\* The non-empty texts at column c of row r and of the marked rows after it,
\* up to the next retained row, in order.
RECURSIVE GroupTexts(_, _, _, _)
GroupTexts(trs, lines, i, c) ==
    LET here == IF c <= Len(trs[i]) /\ trs[i][c] # <<>> THEN <<trs[i][c]>> ELSE <<>> IN
    IF i < Len(lines) /\ Marked(lines[i + 1])
    THEN here \o GroupTexts(trs, lines, i + 1, c)
    ELSE here

\* Table t has at least 2 body lines in its buffer, one per body row, when
\* the join reaches it.
JoinPre(t) ==
    /\ InJoinPhase
    /\ HasBody(root1[t])
    /\ Len(table_blocks[t]) >= 4
    /\ Len(table_blocks[t]) - 2 = Len(tbody_rows(root1[t]))

\* C1: in a table with at least 2 body rows and an aligned buffer, a marked
\* row is never merged into (it keeps its cells during the scan), and after
\* the join every retained row's cell at column c is the non-empty texts at
\* column c of that row and of the marked rows that follow it up to the next
\* retained row, in original order, joined by the separator.
C1_JoinedCells ==
    \A t \in Tables : JoinPre(t) =>
        LET lines == BodyOf(table_blocks[t])
            before == tbody_rows(root1[t])
            now == tbody_rows(root[t])
        IN /\ Scanning(t) =>
                \A i \in 2..Len(lines) : Marked(lines[i]) => now[i] = before[i]
           /\ JoinFinished(t) =>
                \A p \in 1..Cardinality(Retained(lines)) :
                    LET r == NthRetained(lines, p) IN
                    /\ p <= Len(now)
                    /\ Len(now[p]) = Len(before[r])
                    /\ \A c \in 1..Len(before[r]) :
                        now[p][c] = join(sep, GroupTexts(before, lines, r, c))

\* A joined table A, B(marked), C(marked): one row is left, and it took text
\* from both B and C.
C1_Witness ==
    /\ pc = "done"
    /\ Len(root) = 1
    /\ JoinPre(1)
    /\ Len(table_blocks[1]) = 5
    /\ Marked(table_blocks[1][4])
    /\ Marked(table_blocks[1][5])
    /\ Len(tbody_rows(root[1])) = 1
    /\ tbody_rows(root[1])[1][2] = CellText(1, 2) \o sep \o CellText(2, 2) \o sep \o CellText(3, 2)

\* C2: in a table with at least 2 body rows and an aligned buffer, no row
\* leaves the body while the scan runs, and after the join the body is the
\* first row and every later unmarked row, in their original order (each
\* still leading with its own text); a marker on the first row changes nothing.
C2_RowSet ==
    \A t \in Tables : JoinPre(t) =>
        LET lines == BodyOf(table_blocks[t])
            before == tbody_rows(root1[t])
            now == tbody_rows(root[t])
        IN /\ Scanning(t) => Len(now) = Len(before)
           /\ JoinFinished(t) =>
                /\ Len(now) = Cardinality(Retained(lines))
                /\ \A p \in 1..Len(now) :
                    LET r == NthRetained(lines, p) IN
                    \A c \in 1..Len(before[r]) :
                        before[r][c] # <<>> => startswith(now[p][c], before[r][c])

\* A joined table whose first line is marked and whose second is not: both
\* rows are still there, the first unchanged.
C2_Witness ==
    /\ pc = "done"
    /\ Len(root) = 1
    /\ JoinPre(1)
    /\ Len(table_blocks[1]) = 5
    /\ Marked(table_blocks[1][3])
    /\ ~Marked(table_blocks[1][4])
    /\ Marked(table_blocks[1][5])
    /\ Len(tbody_rows(root[1])) = 2
    /\ tbody_rows(root[1])[1] = tbody_rows(root0[1])[1]

\* The trimmed line is a brace segment, optionally followed by " caption: "
\* and a text.
IsDirective(line) ==
    LET s == strip(line)
        closers == {j \in 2..Len(s) : s[j] = "}"}
    IN /\ s # <<>>
       /\ Head(s) = "{"
       /\ closers # {}
       /\ LET rest == SubSeq(s, Min(closers) + 1, Len(s)) IN
          \/ rest = <<>>
          \/ startswith(rest, CAPTION_LIT) /\ Len(rest) > Len(CAPTION_LIT)

\* No body line of the block is marked, and its last line is no directive,
\* neither by the grammar nor for TABLE_ATTR_RE.
Unmarked(block) ==
    /\ \A i \in 3..Len(block) : ~Marked(block[i])
    /\ Len(block) >= 3 =>
        /\ ~IsDirective(block[Len(block)])
        /\ ~TABLE_ATTR_RE_match(block[Len(block)]).matched

\* C3: a table of the document none of whose body source lines is marked
\* and whose last source line is no directive is left as it was by the
\* whole run.
C3_Unchanged ==
    \A t \in Tables : (InRun /\ Unmarked(doc_blocks[t])) => root[t] = root0[t]

\* C4: an extension created without keywords joins with "<br/>"; only an
\* explicit False gives the single space.
C4_DefaultEnabled ==
    pc \notin {"new", "unregistered", "assign", "assigned"} =>
        sep = (IF ext_kwargs = << <<"auto_insert_break", FALSE>> >> THEN SPACE ELSE BR)

\* The last line is "{} caption: <text>".
EmptyAttrsCaption(line) ==
    startswith(line, <<"{", "}">> \o CAPTION_LIT) /\ Len(line) > 2 + Len(CAPTION_LIT)

\* Table t had at least 2 body lines in its buffer and one body row per
\* line when run was entered.
Aligned(t) ==
    /\ HasBody(root0[t])
    /\ Len(blocks0[t]) - 2 = Len(tbody_rows(root0[t]))

\* C5: a table with at least 2 body rows whose last line is
\* "{} caption: <text>" loses its last row and buffer line, gets no
\* attribute, and gets the caption as its first child.
C5_EmptyAttrsCaption ==
    \A t \in Tables :
        (/\ InRun /\ AttrsFinished(t) /\ ~InJoinPhase
         /\ Aligned(t) /\ Len(blocks0[t]) >= 4
         /\ EmptyAttrsCaption(blocks0[t][Len(blocks0[t])])) =>
            LET last == blocks0[t][Len(blocks0[t])] IN
            /\ table_blocks[t] = SubSeq(blocks0[t], 1, Len(blocks0[t]) - 1)
            /\ tbody_rows(root[t]) =
                    SubSeq(tbody_rows(root0[t]), 1, Len(tbody_rows(root0[t])) - 1)
            /\ root[t].attrib = root0[t].attrib
            /\ root[t].children[1] =
                    Child("caption",
                          strip(SubSeq(last, 3 + Len(CAPTION_LIT), Len(last))), <<>>)

\* C6: the last line of a table with at least 2 body rows is taken for a
\* directive exactly when it is one by the grammar; when it is not, the
\* table and its buffer are as they were when add_table_attributes is
\* through with it.
C6_DirectiveDetection ==
    \A t \in Tables :
        (/\ InRun /\ AttrsFinished(t) /\ ~InJoinPhase
         /\ Aligned(t) /\ Len(blocks0[t]) >= 4) =>
            LET last == blocks0[t][Len(blocks0[t])] IN
            /\ (table_blocks[t] # blocks0[t]) <=> IsDirective(last)
            /\ ~IsDirective(last) => root[t] = root0[t]

\* Table t has a body whose row count is not the count of its body source lines.
Misaligned(t) ==
    /\ HasBody(root0[t])
    /\ Len(doc_blocks[t]) - 2 # Len(tbody_rows(root0[t]))

\* C7: a pass over a table whose source-line count differs from its row count
\* never returns normally, and the table is untouched when the pass fails.
C7_MismatchIsFatal ==
    \A t \in Tables : (InRun /\ Misaligned(t)) =>
        /\ pc # "done"
        /\ root[t] = root0[t]

\* C8: in every pass, the buffer run pairs with the i-th table of the tree
\* holds the lines recorded for that table during the same pass.
C8_FreshBuffers ==
    InRun => \A t \in Tables : blocks0[t] = doc_blocks[t]

\* The pairs assign_attrs is given.
Pairs == get_attrs(join(SPACE, attrs_in))
Dots(kvs) == {i \in 1..Len(kvs) : kvs[i][1] = DOT}
Keys(kvs) == {i \in 1..Len(kvs) : kvs[i][1] # DOT}

RECURSIVE DotValues(_)
DotValues(kvs) ==
    IF kvs = <<>> THEN <<>>
    ELSE (IF kvs[1][1] = DOT THEN <<kvs[1][2]>> ELSE <<>>) \o DotValues(Tail(kvs))

\* The reorderings of kvs that keep the "." pairs in their order.
Reorderings(kvs) ==
    {f \in [1..Len(kvs) -> 1..Len(kvs)] :
        /\ \A i, j \in 1..Len(kvs) : i # j => f[i] # f[j]
        /\ \A i, j \in 1..Len(kvs) :
            (i < j /\ f[i] \in Dots(kvs) /\ f[j] \in Dots(kvs)) => f[i] < f[j]}

OrderIndependent(kvs) ==
    /\ \A f \in Reorderings(kvs) :
        assign_pairs(root0[1], [i \in 1..Len(kvs) |-> kvs[f[i]]]).attrib = root[1].attrib
    /\ Dots(kvs) # {} =>
        attr_get(root[1], CLASS) =
            join(SPACE, (IF attr_get(root0[1], CLASS) # <<>>
                         THEN <<attr_get(root0[1], CLASS)>> ELSE <<>>) \o DotValues(kvs))

\* C9 as stated: whenever the keys other than "." are pairwise distinct, the
\* attributes do not depend on the order of those pairs, and class is the old
\* class followed by the "." values in order.
C9_DistinctKeys ==
    (pc = "assigned" /\ \A i, j \in Keys(Pairs) : i # j => Pairs[i][1] # Pairs[j][1])
        => OrderIndependent(Pairs)

\* C9, amended: the same when the keys other than "." are pairwise distinct
\* after sanitize_name and none of them is "class".
C9_DistinctSanitizedKeys ==
    (/\ pc = "assigned"
     /\ \A i \in Keys(Pairs) : sanitize_name(Pairs[i][1]) # CLASS
     /\ \A i, j \in Keys(Pairs) :
            i # j => sanitize_name(Pairs[i][1]) # sanitize_name(Pairs[j][1]))
        => OrderIndependent(Pairs)

\* assign_attrs has run on a table with a class, two keys and a "." pair.
C9_Witness ==
    /\ pc = "assigned"
    /\ attr_get(root0[1], CLASS) = OldClass
    /\ Cardinality(Keys(Pairs)) = 2
    /\ Cardinality(Dots(Pairs)) = 1
    /\ \A i \in Keys(Pairs) : sanitize_name(Pairs[i][1]) # CLASS
    /\ \A i, j \in Keys(Pairs) :
            i # j => sanitize_name(Pairs[i][1]) # sanitize_name(Pairs[j][1])
    /\ attr_get(root[1], CLASS) # OldClass

====
